---- MODULE Spec2Model ----
(***************************************************************************)
(* Model of rich_transient's transient live panel                          *)
(* (src/rich_transient/__init__.py): configuration resolution, the tail    *)
(* computed when a session opens, the lock-guarded line buffer, render,    *)
(* and run_task with its background thread and its Live rendering surface. *)
(*                                                                         *)
(* Python's None is the empty sequence <<>>; an optional value v is <<v>>. *)
(***************************************************************************)
EXTENDS Integers, Sequences, FiniteSets, TLC

VARIABLES
    call,           \* arguments of the _resolve_panel_config call under study
    cfg,            \* <<>> before resolution, <<TransientPanelConfig>> after
    console_height, \* <<>> before the probe, <<height>> after
    tail,           \* <<>> before it is computed, <<tail>> after
    lines_list,     \* the appended lines, oldest first
    current_status, \* current_status[0]
    lock,           \* holder of threading.Lock: "free", "main" or "worker"
    result_holder,  \* the list the background thread appends its result to
    exc_holder,     \* exc_holder[0]: <<>> or <<error>>
    th,             \* the background thread: "none", "alive" or "dead"
    wpc,            \* where the background thread is
    warg,           \* argument of the append / set_status call in progress
    nstatus,        \* number of set_status calls the work has made
    task_outcome,   \* what task_callable did: <<>> while it runs
    pc,             \* where the thread that called run_task is
    phase,          \* which render is in progress: initial, loop or final
    recent,         \* render's local: the retained lines
    visible,        \* render's local: the lines joined into content
    status_text,    \* render's local: <<>> or <<status>>
    frame,          \* the Panel render returned last: <<>> or <<Panel>>
    live,           \* the Live surface: "none", "started" or "stopped"
    begin_calls,    \* number of times Live was entered (begin)
    end_calls,      \* number of times Live was exited (end)
    shown,          \* the frame the surface shows: <<>> or <<Panel>>
    pending,        \* exception leaving the with block: <<>> or <<error>>
    outcome,        \* how run_task ended: <<>> while it has not
    invocations,    \* number of run_task invocations started on the handle
    threads_started,\* number of background threads started (th.start())
    caller2,        \* who made the overlapping run_task call: "none",
                    \* "work" (the work of the first one) or "thread"
    pc2,            \* where the overlapping run_task call is
    th2,            \* its background thread: "none", "alive" or "dead"
    exc_holder2,    \* its exc_holder[0]: <<>> or <<error>>
    task_outcome2,  \* what its task_callable did: <<>> while it runs
    outcome2        \* how it ended: <<>> while it has not

cfgVars    == <<call, cfg, console_height, tail>>
bufVars    == <<lines_list, current_status, lock>>
workerVars == <<result_holder, exc_holder, th, wpc, warg, nstatus, task_outcome>>
renderVars == <<recent, visible, status_text, frame>>
liveVars   == <<live, begin_calls, end_calls, shown>>
mainVars   == <<pc, phase, pending, outcome>>
otherVars  == <<caller2, pc2, th2, exc_holder2, task_outcome2, outcome2>>
runVars    == <<invocations, threads_started, otherVars>>

vars == <<cfgVars, bufVars, workerVars, renderVars, liveVars, mainVars,
          runVars>>

Min(a, b) == IF a <= b THEN a ELSE b
Max(a, b) == IF a >= b THEN a ELSE b

(***************************************************************************)
(* TransientPanelConfig and the presets                                    *)
(***************************************************************************)
LIVE_REFRESH_PER_SECOND == 8

\* the dataclass defaults
TransientPanelConfig ==
    [ max_lines          |-> 100,
      display_lines      |-> 24,
      refresh_per_second |-> LIVE_REFRESH_PER_SECOND,
      default_status     |-> "Running",
      reserve_lines      |-> 12,
      border_style       |-> "dim",
      padding            |-> <<0, 1>> ]

TRANSIENT_PANEL_PRESETS ==
    [ default   |-> TransientPanelConfig,
      streaming |-> [TransientPanelConfig EXCEPT
                        !.max_lines = 200,
                        !.display_lines = 28,
                        !.default_status = "Running"] ]

\* dict.get(name): None for a name that is no key
PresetGet(name) ==
    IF name \in DOMAIN TRANSIENT_PANEL_PRESETS
    THEN <<TRANSIENT_PANEL_PRESETS[name]>>
    ELSE <<>>

\* {f.name for f in fields(TransientPanelConfig)}
valid_names == DOMAIN TransientPanelConfig

\* Python truthiness of an optional string: None and "" are falsy
StrTruthy(s) == s # <<>> /\ s # <<"">>

\* config or PRESETS.get(preset or "default") or PRESETS["default"]
\* (a dataclass instance is always truthy)
ResolveBase(preset, config) ==
    IF config # <<>>
    THEN config[1]
    ELSE LET name == IF StrTruthy(preset) THEN preset[1] ELSE "default"
             got  == PresetGet(name)
         IN  IF got # <<>> THEN got[1] ELSE TRANSIENT_PANEL_PRESETS["default"]

\* a mutant of CleanOverrides: "if v" instead of "v is not None", which
\* drops an override whose value is 0
CleanOverrides_truthy(overrides) ==
    [ k \in { n \in DOMAIN overrides :
                /\ n \in valid_names
                /\ overrides[n] # <<>>
                /\ n \in {"max_lines", "display_lines"}
                      => overrides[n] # <<0>> } |-> overrides[k][1] ]

\* {k: v for k, v in overrides.items() if k in valid_names and v is not None}
CleanOverrides(overrides) ==
    [ k \in { n \in DOMAIN overrides :
                n \in valid_names /\ overrides[n] # <<>> } |-> overrides[k][1] ]

\* dataclasses.replace(base, **clean)
Replace(base, clean) ==
    [ f \in DOMAIN base |-> IF f \in DOMAIN clean THEN clean[f] ELSE base[f] ]

_resolve_panel_config(preset, config, overrides) ==
    LET base  == ResolveBase(preset, config)
        clean == CleanOverrides(overrides)
    IN  IF DOMAIN clean = {} THEN base ELSE Replace(base, clean)

(***************************************************************************)
(* The tail computed when the session opens                                *)
(***************************************************************************)
FallbackHeight == 30

\* a mutant of ProbeHeight: the fallback is the usual 24 terminal rows
ProbeHeight_fallback24(probe) ==
    IF probe = <<>> THEN 24 ELSE probe[1]

\* try: console.size.height / except Exception: 30
\* probe is <<h>> when the console reports h rows, <<>> when the probe raises
ProbeHeight(probe) ==
    IF probe = <<>> THEN FallbackHeight ELSE probe[1]

\* min(cfg.display_lines, max(1, console_height - cfg.reserve_lines))
TailFor(c, height) ==
    Min(c.display_lines, Max(1, height - c.reserve_lines))

(***************************************************************************)
(* render: the window on the buffer, markup, the Panel                     *)
(***************************************************************************)
\* Python's lst[-n:]: the last n elements for n > 0 (all of them when
\* n >= len), the whole list for n = 0 (-0 is 0), lst[k:] for n = -k < 0
SliceLast(lst, n) ==
    IF n = 0 THEN lst
    ELSE IF n > 0 THEN SubSeq(lst, Max(1, Len(lst) - n + 1), Len(lst))
    ELSE SubSeq(lst, Min(0 - n, Len(lst)) + 1, Len(lst))

\* a mutant of Recent: the slice keeps one line too many
Recent_offByOne(lst, max_lines) ==
    IF Len(lst) > max_lines THEN SliceLast(lst, max_lines + 1) ELSE lst

\* lines_list[-cfg.max_lines:] if len(lines_list) > cfg.max_lines else lines_list
Recent(lst, max_lines) ==
    IF Len(lst) > max_lines THEN SliceLast(lst, max_lines) ELSE lst

\* recent[-tail:] if len(recent) > tail else recent
Visible(rec, t) ==
    IF Len(rec) > t THEN SliceLast(rec, t) ELSE rec

\* The lines the work may append. A line is plain text, the opening tag
\* [b] or the closing tag [/b]; content is the lines joined by newlines, so
\* a tag opened on one line is closed by a later line.
Lines == {"a", "[b]", "[/b]"}
IsOpenTag(l)  == l = "[b]"
IsCloseTag(l) == l = "[/b]"

\* number of tags open after the first i lines of content; -1 once a
\* closing tag has met no open tag (rich.markup raises MarkupError there)
RECURSIVE MarkupDepth(_, _)
MarkupDepth(content, i) ==
    IF i = 0 THEN 0
    ELSE LET d == MarkupDepth(content, i - 1)
         IN  IF d < 0 THEN d
             ELSE IF IsOpenTag(content[i]) THEN d + 1
             ELSE IF IsCloseTag(content[i]) THEN d - 1
             ELSE d

\* whether Text.from_markup(content) raises
MarkupFails(content) == MarkupDepth(content, Len(content)) < 0

\* Text.from_markup(content): the tags are removed from the text and the
\* lines inside an open tag are styled
FromMarkup(content) ==
    [ plain  |-> [ i \in 1..Len(content) |->
                     IF IsOpenTag(content[i]) \/ IsCloseTag(content[i])
                     THEN "" ELSE content[i] ],
      styled |-> { i \in 1..Len(content) :
                     /\ ~IsOpenTag(content[i])
                     /\ ~IsCloseTag(content[i])
                     /\ MarkupDepth(content, i) > 0 } ]

\* Text(content): the characters as they are, no style
LiteralText(content) == [ plain |-> content, styled |-> {} ]

\* a mutant of Streamed: the fallback shows nothing instead of the text
Streamed_emptyFallback(content) ==
    IF content # <<>>
    THEN IF MarkupFails(content)
         THEN [ text |-> LiteralText(<<>>) ]
         ELSE [ text |-> FromMarkup(content) ]
    ELSE [ text |-> LiteralText(<<>>) ]

\* a mutant of Streamed: no fallback, the parse error leaves render
Streamed_noFallback(content) ==
    IF content # <<>>
    THEN IF MarkupFails(content)
         THEN [ raised |-> "MarkupError" ]
         ELSE [ text |-> FromMarkup(content) ]
    ELSE [ text |-> LiteralText(<<>>) ]

\* if content: try Text.from_markup(content) except Exception: Text(content)
\* else: Text("")
\* The result is [text |-> ...], or [raised |-> error] if render raised.
Streamed(content) ==
    IF content # <<>>
    THEN IF MarkupFails(content)
         THEN [ text |-> LiteralText(content) ]
         ELSE [ text |-> FromMarkup(content) ]
    ELSE [ text |-> LiteralText(<<>>) ]

\* Panel(streamed, title=title, subtitle=status_line, border_style=..., ...)
\* The status line is modelled by its status text: the spinner glyph, a
\* function of the clock, and the constant title are left out.
Panel(streamed, status, c) ==
    [ body         |-> streamed,
      subtitle     |-> status,
      border_style |-> c.border_style,
      padding      |-> c.padding ]

(***************************************************************************)
(* Inputs                                                                  *)
(***************************************************************************)
MaxAppends == 3     \* lines the work appends at most
MaxStatus  == 1     \* set_status calls the work makes at most

Statuses     == {"Downloading"}
Values       == {<<>>, <<"ok">>}             \* what the work returns; <<>> is None
TaskErrors   == {"ValueError", "SystemExit"} \* an Exception and a BaseException
SurfaceError == "RenderingSurfaceError"

\* the open calls of the sessions that are run: transient_live_panel(title,
\* preset, config, max_lines=, display_lines=, border_style=) and what the
\* console's height probe gives
SessionCalls ==
    { [preset |-> <<"default">>, config |-> <<>>, max_lines |-> <<>>,
       display_lines |-> <<>>, border_style |-> <<>>, probe |-> <<>>],
      [preset |-> <<"streaming">>,
       config |-> <<[TransientPanelConfig EXCEPT !.max_lines = 2,
                                                 !.display_lines = 2]>>,
       max_lines |-> <<>>, display_lines |-> <<1>>,
       border_style |-> <<"red">>, probe |-> <<40>>],
      [preset |-> <<"default">>, config |-> <<>>, max_lines |-> <<1>>,
       display_lines |-> <<>>, border_style |-> <<>>, probe |-> <<14>>],
      [preset |-> <<"default">>, config |-> <<>>, max_lines |-> <<0>>,
       display_lines |-> <<0>>, border_style |-> <<>>, probe |-> <<>>] }

(***************************************************************************)
(* transient_live_panel: opening the session                               *)
(***************************************************************************)
Init ==
    /\ call = <<>>
    /\ cfg = <<>>
    /\ console_height = <<>>
    /\ tail = <<>>
    /\ lines_list = <<>>
    /\ current_status = ""
    /\ lock = "free"
    /\ result_holder = <<>>
    /\ exc_holder = <<>>
    /\ th = "none"
    /\ wpc = "none"
    /\ warg = <<>>
    /\ nstatus = 0
    /\ task_outcome = <<>>
    /\ pc = "closed"
    /\ phase = "none"
    /\ recent = <<>>
    /\ visible = <<>>
    /\ status_text = <<>>
    /\ frame = <<>>
    /\ live = "none"
    /\ begin_calls = 0
    /\ end_calls = 0
    /\ shown = <<>>
    /\ pending = <<>>
    /\ outcome = <<>>
    /\ invocations = 0
    /\ threads_started = 0
    /\ caller2 = "none"
    /\ pc2 = "none"
    /\ th2 = "none"
    /\ exc_holder2 = <<>>
    /\ task_outcome2 = <<>>
    /\ outcome2 = <<>>

\* the body of transient_live_panel up to its yield
OpenSession(c) ==
    /\ pc = "closed"
    /\ LET resolved == _resolve_panel_config(c.preset, c.config,
                          [ max_lines     |-> c.max_lines,
                            display_lines |-> c.display_lines,
                            border_style  |-> c.border_style ])
           height   == ProbeHeight(c.probe)
       IN  /\ cfg' = <<resolved>>
           /\ console_height' = <<height>>
           /\ tail' = <<TailFor(resolved, height)>>
           /\ current_status' = resolved.default_status
    /\ lines_list' = <<>>
    /\ lock' = "free"
    /\ result_holder' = <<>>
    /\ pc' = "open"
    /\ UNCHANGED <<runVars, call, exc_holder, th, wpc, warg, nstatus, task_outcome,
                   phase, pending, outcome, renderVars, liveVars>>

(***************************************************************************)
(* append and set_status, called by the work on the background thread      *)
(***************************************************************************)
\* with lock: (entering append)
append_enter(line) ==
    /\ wpc = "work"
    /\ Len(lines_list) < MaxAppends
    /\ lock = "free"
    /\ lock' = "worker"
    /\ wpc' = "append"
    /\ warg' = <<line>>
    /\ UNCHANGED <<runVars, cfgVars, lines_list, current_status, result_holder,
                   exc_holder, th, nstatus, task_outcome, renderVars,
                   liveVars, mainVars>>

\* a mutant of append_body: append acquires the lock without a with block
\* and returns without releasing it
append_body_keepsLock ==
    /\ wpc = "append"
    /\ lines_list' = Append(lines_list, warg[1])
    /\ wpc' = "work"
    /\ warg' = <<>>
    /\ UNCHANGED <<runVars, cfgVars, current_status, lock, result_holder,
                   exc_holder, th, nstatus, task_outcome, renderVars,
                   liveVars, mainVars>>

\* lines_list.append(line), and the lock is released
append_body ==
    /\ wpc = "append"
    /\ lines_list' = Append(lines_list, warg[1])
    /\ lock' = "free"
    /\ wpc' = "work"
    /\ warg' = <<>>
    /\ UNCHANGED <<runVars, cfgVars, current_status, result_holder, exc_holder, th,
                   nstatus, task_outcome, renderVars, liveVars, mainVars>>

\* with lock: (entering set_status)
set_status_enter(text) ==
    /\ wpc = "work"
    /\ nstatus < MaxStatus
    /\ lock = "free"
    /\ lock' = "worker"
    /\ wpc' = "set_status"
    /\ warg' = <<text>>
    /\ nstatus' = nstatus + 1
    /\ UNCHANGED <<runVars, cfgVars, lines_list, current_status, result_holder,
                   exc_holder, th, task_outcome, renderVars, liveVars,
                   mainVars>>

\* current_status[0] = text, and the lock is released
set_status_body ==
    /\ wpc = "set_status"
    /\ current_status' = warg[1]
    /\ lock' = "free"
    /\ wpc' = "work"
    /\ warg' = <<>>
    /\ UNCHANGED <<runVars, cfgVars, lines_list, result_holder, exc_holder, th,
                   nstatus, task_outcome, renderVars, liveVars, mainVars>>

(***************************************************************************)
(* run: the target of the background thread                                *)
(***************************************************************************)
\* a mutant of Captured: only Exception is caught, a BaseException such as
\* SystemExit leaves the thread and nothing is stored
Captured_exceptionOnly(e) ==
    IF e = "SystemExit" THEN <<>> ELSE <<e>>

\* except BaseException as e: exc_holder[0] = e
Captured(e) == <<e>>

\* task_callable() returns v: result_holder.append(v)
WorkReturns(v) ==
    /\ wpc = "work"
    /\ result_holder' = Append(result_holder, v)
    /\ task_outcome' = <<[kind |-> "return", value |-> v]>>
    /\ wpc' = "finish"
    /\ UNCHANGED <<runVars, cfgVars, bufVars, exc_holder, th, warg, nstatus,
                   renderVars, liveVars, mainVars>>

\* a mutant of WorkRaises: a failed task also records a result (None), as
\* an append placed in a finally clause would
WorkRaises_recordsBoth(e) ==
    /\ wpc = "work"
    /\ exc_holder' = Captured(e)
    /\ result_holder' = Append(result_holder, <<>>)
    /\ task_outcome' = <<[kind |-> "raise", error |-> e]>>
    /\ wpc' = "finish"
    /\ UNCHANGED <<runVars, cfgVars, bufVars, th, warg, nstatus,
                   renderVars, liveVars, mainVars>>

\* task_callable() raises e
WorkRaises(e) ==
    /\ wpc = "work"
    /\ exc_holder' = Captured(e)
    /\ task_outcome' = <<[kind |-> "raise", error |-> e]>>
    /\ wpc' = "finish"
    /\ UNCHANGED <<runVars, cfgVars, bufVars, result_holder, th, warg, nstatus,
                   renderVars, liveVars, mainVars>>

\* run() returns and the thread is no longer alive
ThreadExit ==
    /\ wpc = "finish"
    /\ wpc' = "dead"
    /\ th' = "dead"
    /\ UNCHANGED <<runVars, cfgVars, bufVars, result_holder, exc_holder, warg,
                   nstatus, task_outcome, renderVars, liveVars, mainVars>>

(***************************************************************************)
(* render, called by run_task on the calling thread                        *)
(***************************************************************************)
\* a mutant of RenderMayEnter: render reads the buffer without waiting for
\* the lock
RenderMayEnter_noLock == TRUE

\* with lock: blocks while another thread holds the lock
RenderMayEnter == lock = "free"

render_enter ==
    /\ pc = "render"
    /\ RenderMayEnter
    /\ lock' = "main"
    /\ pc' = "render_lines"
    /\ UNCHANGED <<runVars, cfgVars, lines_list, current_status, workerVars,
                   renderVars, liveVars, phase, pending, outcome>>

\* a mutant of render_lines: render trims the buffer to the retained lines
render_lines_evicts ==
    /\ pc = "render_lines"
    /\ recent' = Recent(lines_list, cfg[1].max_lines)
    /\ visible' = Visible(recent', tail[1])
    /\ lines_list' = Recent(lines_list, cfg[1].max_lines)
    /\ pc' = "render_status"
    /\ UNCHANGED <<runVars, cfgVars, current_status, lock, workerVars,
                   status_text, frame, liveVars, phase, pending, outcome>>

\* recent = ...; visible = ...; content = "\n".join(visible)
render_lines ==
    /\ pc = "render_lines"
    /\ recent' = Recent(lines_list, cfg[1].max_lines)
    /\ visible' = Visible(recent', tail[1])
    /\ pc' = "render_status"
    /\ UNCHANGED <<runVars, cfgVars, bufVars, workerVars, status_text, frame,
                   liveVars, phase, pending, outcome>>

\* a mutant of render_status: the with lock block extends over the rest of
\* render and the update, the lock is not released after the copy
render_status_keepsLock ==
    /\ pc = "render_status"
    /\ status_text' = <<current_status>>
    /\ pc' = "render_build"
    /\ UNCHANGED <<runVars, cfgVars, bufVars, workerVars, recent, visible,
                   frame, liveVars, phase, pending, outcome>>

\* status_text = current_status[0], and the lock is released
render_status ==
    /\ pc = "render_status"
    /\ status_text' = <<current_status>>
    /\ lock' = "free"
    /\ pc' = "render_build"
    /\ UNCHANGED <<runVars, cfgVars, lines_list, current_status, workerVars, recent,
                   visible, frame, liveVars, phase, pending, outcome>>

\* a mutant of WithExit: the surface is stopped by a plain call after the
\* loop, so an exception raised inside the block skips it
WithExit_skipped == "raised"

\* with Live(...) as live: an exception raised inside the block runs the
\* block's exit (Live.__exit__, the surface's end) before it goes on
WithExit == "end"

\* the rest of render, outside the lock: markup, status line, Panel. The
\* initial render is an argument of Live(...); the others of live.update.
\* An exception leaving render leaves run_task when no Live is entered yet
\* and leaves the with block otherwise.
render_build ==
    /\ pc = "render_build"
    /\ LET streamed == Streamed(visible)
       IN  IF "raised" \in DOMAIN streamed
           THEN /\ frame' = frame
                /\ IF phase = "initial"
                   THEN /\ pc' = "raised"
                        /\ outcome' = <<[kind |-> "raise",
                                         error |-> streamed.raised]>>
                        /\ pending' = pending
                   ELSE /\ pc' = WithExit
                        /\ pending' = <<streamed.raised>>
                        /\ outcome' = outcome
           ELSE /\ frame' = <<Panel(streamed.text, status_text[1], cfg[1])>>
                /\ pc' = IF phase = "initial" THEN "begin" ELSE "update"
                /\ UNCHANGED <<pending, outcome>>
    /\ recent' = <<>>
    /\ visible' = <<>>
    /\ status_text' = <<>>
    /\ UNCHANGED <<runVars, cfgVars, bufVars, workerVars, liveVars, phase>>

(***************************************************************************)
(* run_task                                                                *)
(***************************************************************************)
\* result_holder.clear(); exc_holder = [None]; th = Thread(target=run);
\* th.start(); then the initial render() is evaluated
run_task_start ==
    /\ pc = "open"
    /\ result_holder' = <<>>
    /\ exc_holder' = <<>>
    /\ th' = "alive"
    /\ invocations' = invocations + 1
    /\ threads_started' = threads_started + 1
    /\ wpc' = "work"
    /\ pc' = "render"
    /\ phase' = "initial"
    /\ UNCHANGED <<cfgVars, bufVars, warg, nstatus, task_outcome,
                   renderVars, liveVars, pending, outcome, otherVars>>

\* with Live(render(), ..., transient=True, console=...) as live:
\* begin either succeeds or raises; when it raises the with block is not
\* entered and its exit is not run
live_begin(ok) ==
    /\ pc = "begin"
    /\ begin_calls' = begin_calls + 1
    /\ IF ok
       THEN /\ live' = "started"
            /\ shown' = frame
            /\ pc' = "check"
            /\ phase' = "loop"
            /\ outcome' = outcome
       ELSE /\ pc' = "raised"
            /\ outcome' = <<[kind |-> "raise", error |-> SurfaceError]>>
            /\ UNCHANGED <<live, shown, phase>>
    /\ UNCHANGED <<runVars, cfgVars, bufVars, workerVars, renderVars, end_calls,
                   pending>>

\* a mutant of IsAlive: the loop never finds the thread alive, so the last
\* render is made while the work may still be running
IsAlive_never == FALSE

\* a mutant of IsAlive: the loop finds the thread alive at every check
IsAlive_always == TRUE

\* th.is_alive()
IsAlive == th = "alive"

\* a mutant of loop_check: the loop's exit goes straight to the end of the
\* with block, without the final live.update(render())
loop_check_noFinalRender ==
    /\ pc = "check"
    /\ phase' = IF IsAlive THEN "loop" ELSE "final"
    /\ pc' = IF IsAlive THEN "render" ELSE "end"
    /\ UNCHANGED <<runVars, cfgVars, bufVars, workerVars, renderVars, liveVars,
                   pending, outcome>>

\* while th.is_alive(): ... / after the loop: live.update(render())
loop_check ==
    /\ pc = "check"
    /\ phase' = IF IsAlive THEN "loop" ELSE "final"
    /\ pc' = "render"
    /\ UNCHANGED <<runVars, cfgVars, bufVars, workerVars, renderVars, liveVars,
                   pending, outcome>>

\* live.update(frame): the surface shows the frame, or the call raises
live_update(ok) ==
    /\ pc = "update"
    /\ IF ok
       THEN /\ shown' = frame
            /\ pc' = IF phase = "loop" THEN "sleep" ELSE "end"
            /\ pending' = pending
       ELSE /\ pc' = WithExit
            /\ pending' = <<SurfaceError>>
            /\ shown' = shown
    /\ UNCHANGED <<runVars, cfgVars, bufVars, workerVars, renderVars, live,
                   begin_calls, end_calls, phase, outcome>>

\* time.sleep(0.05)
loop_sleep ==
    /\ pc = "sleep"
    /\ pc' = "check"
    /\ UNCHANGED <<runVars, cfgVars, bufVars, workerVars, renderVars, liveVars,
                   phase, pending, outcome>>

\* leaving the with block: Live.__exit__ stops the surface (end). An
\* exception that is leaving the block goes on to the caller afterwards;
\* an exception raised by end itself goes to the caller in its place.
live_end(ok) ==
    /\ pc = "end"
    /\ end_calls' = end_calls + 1
    /\ live' = "stopped"
    /\ IF ok /\ pending = <<>>
       THEN /\ pc' = "join"
            /\ outcome' = outcome
       ELSE /\ pc' = "raised"
            /\ outcome' = <<[kind  |-> "raise",
                             error |-> IF ok THEN pending[1]
                                       ELSE SurfaceError]>>
    /\ pending' = <<>>
    /\ UNCHANGED <<runVars, cfgVars, bufVars, workerVars, renderVars, begin_calls,
                   shown, phase>>

\* th.join(): returns once the thread is no longer alive
thread_join ==
    /\ pc = "join"
    /\ th = "dead"
    /\ pc' = "deliver"
    /\ UNCHANGED <<runVars, cfgVars, bufVars, workerVars, renderVars, liveVars,
                   phase, pending, outcome>>

\* a mutant of ResultOf: run_task ends without a return statement
ResultOf_none(holder) == <<>>

\* result_holder[0]
ResultOf(holder) == holder[1]

\* if exc_holder[0] is not None: raise exc_holder[0]
\* return result_holder[0]      (IndexError on an empty list)
deliver ==
    /\ pc = "deliver"
    /\ IF exc_holder # <<>>
       THEN /\ pc' = "raised"
            /\ outcome' = <<[kind |-> "raise", error |-> exc_holder[1]]>>
       ELSE IF result_holder = <<>>
       THEN /\ pc' = "raised"
            /\ outcome' = <<[kind |-> "raise", error |-> "IndexError"]>>
       ELSE /\ pc' = "returned"
            /\ outcome' = <<[kind  |-> "return",
                             value |-> ResultOf(result_holder)]>>
    /\ UNCHANGED <<runVars, cfgVars, bufVars, workerVars, renderVars, liveVars,
                   phase, pending>>

(***************************************************************************)
(* The session                                                             *)
(***************************************************************************)
Next ==
    \/ \E c \in SessionCalls : OpenSession(c)
    \/ run_task_start
    \/ render_enter
    \/ render_lines
    \/ render_status
    \/ render_build
    \/ \E ok \in BOOLEAN : live_begin(ok)
    \/ loop_check
    \/ \E ok \in BOOLEAN : live_update(ok)
    \/ loop_sleep
    \/ \E ok \in BOOLEAN : live_end(ok)
    \/ thread_join
    \/ deliver
    \/ \E line \in Lines : append_enter(line)
    \/ append_body
    \/ \E text \in Statuses : set_status_enter(text)
    \/ set_status_body
    \/ \E v \in Values : WorkReturns(v)
    \/ \E e \in TaskErrors : WorkRaises(e)
    \/ ThreadExit

Spec == Init /\ [][Next]_vars

(***************************************************************************)
(* Opening a session step by step, for arbitrary arguments: the call of    *)
(* _resolve_panel_config, made directly with any keyword overrides or by   *)
(* transient_live_panel with its three, and then the height probe.         *)
(***************************************************************************)
Presets == {<<>>, <<"">>, <<"default">>, <<"streaming">>, <<"compact">>}

Configs ==
    { <<>>,
      <<[TransientPanelConfig EXCEPT !.max_lines = 2, !.display_lines = 2]>>,
      <<[TransientPanelConfig EXCEPT !.max_lines = 50, !.display_lines = 10,
                                     !.reserve_lines = 4,
                                     !.border_style = "blue",
                                     !.default_status = "Working"]>> }

\* the keyword names overrides are given under; "colour" is no field
OverrideNames == {"max_lines", "display_lines", "border_style", "colour"}
PanelOverrideNames == {"max_lines", "display_lines", "border_style"}

\* the values an override is given with; <<>> is None
OverrideValues(name) ==
    CASE name = "max_lines"     -> {<<>>, <<0>>, <<10>>, <<300>>}
      [] name = "display_lines" -> {<<>>, <<0>>, <<5>>}
      [] name = "border_style"  -> {<<>>, <<"red">>}
      [] name = "colour"        -> {<<>>, <<"red">>}

\* every **overrides: any subset of the names, each with one of its values
OverrideSets ==
    { [ n \in K |-> CASE n = "max_lines"     -> m
                      [] n = "display_lines" -> d
                      [] n = "border_style"  -> b
                      [] n = "colour"        -> x ] :
        K \in SUBSET OverrideNames,
        m \in OverrideValues("max_lines"),
        d \in OverrideValues("display_lines"),
        b \in OverrideValues("border_style"),
        x \in OverrideValues("colour") }

\* what the console's height probe gives: <<h>>, or <<>> when it raises
Probes == {<<>>, <<0>>, <<13>>, <<14>>, <<30>>, <<50>>}

ResolveCalls ==
    { [fn |-> "_resolve_panel_config", preset |-> p, config |-> c,
       overrides |-> o, probe |-> <<>>] :
        p \in Presets, c \in Configs, o \in OverrideSets }
    \cup
    { [fn |-> "transient_live_panel", preset |-> p, config |-> c,
       overrides |-> o, probe |-> h] :
        p \in Presets \ {<<>>}, c \in Configs,
        o \in {x \in OverrideSets : DOMAIN x = PanelOverrideNames},
        h \in Probes }

InitOpen ==
    /\ call \in ResolveCalls
    /\ cfg = <<>>
    /\ console_height = <<>>
    /\ tail = <<>>
    /\ lines_list = <<>>
    /\ current_status = ""
    /\ lock = "free"
    /\ result_holder = <<>>
    /\ exc_holder = <<>>
    /\ th = "none"
    /\ wpc = "none"
    /\ warg = <<>>
    /\ nstatus = 0
    /\ task_outcome = <<>>
    /\ pc = "resolve"
    /\ phase = "none"
    /\ recent = <<>>
    /\ visible = <<>>
    /\ status_text = <<>>
    /\ frame = <<>>
    /\ live = "none"
    /\ begin_calls = 0
    /\ end_calls = 0
    /\ shown = <<>>
    /\ pending = <<>>
    /\ outcome = <<>>
    /\ invocations = 0
    /\ threads_started = 0
    /\ caller2 = "none"
    /\ pc2 = "none"
    /\ th2 = "none"
    /\ exc_holder2 = <<>>
    /\ task_outcome2 = <<>>
    /\ outcome2 = <<>>

\* cfg = _resolve_panel_config(preset=..., config=..., **overrides)
resolve ==
    /\ pc = "resolve"
    /\ cfg' = <<_resolve_panel_config(call.preset, call.config,
                                      call.overrides)>>
    /\ pc' = IF call.fn = "transient_live_panel" THEN "probe" ELSE "resolved"
    /\ UNCHANGED <<runVars, call, console_height, tail, bufVars, workerVars,
                   renderVars, liveVars, phase, pending, outcome>>

\* lines_list, current_status, lock, result_holder are created; the height
\* is probed and the tail computed; the handle is yielded
probe_height ==
    /\ pc = "probe"
    /\ console_height' = <<ProbeHeight(call.probe)>>
    /\ tail' = <<TailFor(cfg[1], console_height'[1])>>
    /\ current_status' = cfg[1].default_status
    /\ pc' = "open"
    /\ UNCHANGED <<runVars, call, cfg, lines_list, lock, workerVars, renderVars,
                   liveVars, phase, pending, outcome>>

NextOpen ==
    \/ resolve
    \/ probe_height

SpecOpen == InitOpen /\ [][NextOpen]_vars

(***************************************************************************)
(* run_task invoked again on the same handle. The handle outlives a        *)
(* run_task call and run_task has no guard on a second call; the caller    *)
(* makes the further call after the previous call has ended and its        *)
(* thread has finished. lines_list and current_status are the session's    *)
(* and are kept; th, exc_holder and the Live object are the call's own.    *)
(***************************************************************************)
MaxInvocations == 2   \* run_task calls made on the handle at most

\* a mutant of run_task_again: run_task refuses a second call, it raises
\* without starting a thread
run_task_again_refused ==
    /\ pc \in {"returned", "raised"}
    /\ th = "dead"
    /\ invocations < MaxInvocations
    /\ invocations' = invocations + 1
    /\ pc' = "raised"
    /\ outcome' = <<[kind |-> "raise", error |-> "RuntimeError"]>>
    /\ UNCHANGED <<threads_started, cfgVars, bufVars, workerVars,
                   renderVars, liveVars, phase, pending, otherVars>>

\* result_holder.clear(); exc_holder = [None]; th = Thread(target=run);
\* th.start(); then the initial render() for a new Live
run_task_again ==
    /\ pc \in {"returned", "raised"}
    /\ th = "dead"
    /\ invocations < MaxInvocations
    /\ result_holder' = <<>>
    /\ exc_holder' = <<>>
    /\ th' = "alive"
    /\ invocations' = invocations + 1
    /\ threads_started' = threads_started + 1
    /\ wpc' = "work"
    /\ task_outcome' = <<>>
    /\ pc' = "render"
    /\ phase' = "initial"
    /\ outcome' = <<>>
    /\ frame' = <<>>
    /\ live' = "none"
    /\ shown' = <<>>
    /\ UNCHANGED <<cfgVars, bufVars, warg, nstatus, recent, visible,
                   status_text, begin_calls, end_calls, pending, otherVars>>

\* the work of these calls returns or raises without touching the buffer
NextAgain ==
    \/ \E c \in SessionCalls : OpenSession(c)
    \/ run_task_start
    \/ run_task_again
    \/ render_enter
    \/ render_lines
    \/ render_status
    \/ render_build
    \/ \E ok \in BOOLEAN : live_begin(ok)
    \/ loop_check
    \/ \E ok \in BOOLEAN : live_update(ok)
    \/ loop_sleep
    \/ \E ok \in BOOLEAN : live_end(ok)
    \/ thread_join
    \/ deliver
    \/ \E v \in Values : WorkReturns(v)
    \/ \E e \in TaskErrors : WorkRaises(e)
    \/ ThreadExit

SpecAgain == Init /\ [][NextAgain]_vars

(***************************************************************************)
(* A run_task call that overlaps another one on the same handle: made by   *)
(* the work of the first call (nested) or by another thread (concurrent),  *)
(* or made on its own. It has its own exc_holder and thread; result_holder *)
(* belongs to the session and is the one the first call uses. Its renders  *)
(* only read the buffer and its Live is another object, so its with block  *)
(* is one step here.                                                       *)
(***************************************************************************)
Callers == {"work", "thread"}

\* result_holder.clear(); exc_holder = [None]; th = Thread(target=run);
\* th.start()
run_task2_start(c) ==
    /\ pc # "closed"
    /\ pc2 = "none"
    /\ c = "work" => wpc = "work"
    /\ invocations < MaxInvocations
    /\ caller2' = c
    /\ result_holder' = <<>>
    /\ exc_holder2' = <<>>
    /\ th2' = "alive"
    /\ pc2' = "live"
    /\ invocations' = invocations + 1
    /\ threads_started' = threads_started + 1
    /\ UNCHANGED <<cfgVars, bufVars, exc_holder, th, wpc, warg, nstatus,
                   task_outcome, renderVars, liveVars, mainVars,
                   task_outcome2, outcome2>>

\* its task_callable() returns v: result_holder.append(v)
Work2Returns(v) ==
    /\ th2 = "alive"
    /\ task_outcome2 = <<>>
    /\ result_holder' = Append(result_holder, v)
    /\ task_outcome2' = <<[kind |-> "return", value |-> v]>>
    /\ UNCHANGED <<invocations, threads_started, caller2, pc2, th2,
                   exc_holder2, outcome2, cfgVars, bufVars, exc_holder, th,
                   wpc, warg, nstatus, task_outcome, renderVars, liveVars,
                   mainVars>>

\* its task_callable() raises e: exc_holder[0] = e
Work2Raises(e) ==
    /\ th2 = "alive"
    /\ task_outcome2 = <<>>
    /\ exc_holder2' = Captured(e)
    /\ task_outcome2' = <<[kind |-> "raise", error |-> e]>>
    /\ UNCHANGED <<invocations, threads_started, caller2, pc2, th2, outcome2,
                   cfgVars, bufVars, workerVars, renderVars, liveVars,
                   mainVars>>

\* its run() returns and its thread is no longer alive
Thread2Exit ==
    /\ th2 = "alive"
    /\ task_outcome2 # <<>>
    /\ th2' = "dead"
    /\ UNCHANGED <<invocations, threads_started, caller2, pc2, exc_holder2,
                   task_outcome2, outcome2, cfgVars, bufVars, workerVars,
                   renderVars, liveVars, mainVars>>

\* with Live(...): while th.is_alive(): ...; live.update(render()): the
\* block is left normally once the thread has finished, or by a surface
\* error at any time
run_task2_with(ok) ==
    /\ pc2 = "live"
    /\ ok => th2 = "dead"
    /\ IF ok
       THEN /\ pc2' = "join"
            /\ outcome2' = outcome2
       ELSE /\ pc2' = "raised"
            /\ outcome2' = <<[kind |-> "raise", error |-> SurfaceError]>>
    /\ UNCHANGED <<invocations, threads_started, caller2, th2, exc_holder2,
                   task_outcome2, cfgVars, bufVars, workerVars, renderVars,
                   liveVars, mainVars>>

\* th.join()
run_task2_join ==
    /\ pc2 = "join"
    /\ th2 = "dead"
    /\ pc2' = "deliver"
    /\ UNCHANGED <<invocations, threads_started, caller2, th2, exc_holder2,
                   task_outcome2, outcome2, cfgVars, bufVars, workerVars,
                   renderVars, liveVars, mainVars>>

\* if exc_holder[0] is not None: raise exc_holder[0]
\* return result_holder[0]      (IndexError on an empty list)
run_task2_deliver ==
    /\ pc2 = "deliver"
    /\ IF exc_holder2 # <<>>
       THEN /\ pc2' = "raised"
            /\ outcome2' = <<[kind |-> "raise", error |-> exc_holder2[1]]>>
       ELSE IF result_holder = <<>>
       THEN /\ pc2' = "raised"
            /\ outcome2' = <<[kind |-> "raise", error |-> "IndexError"]>>
       ELSE /\ pc2' = "returned"
            /\ outcome2' = <<[kind  |-> "return",
                              value |-> ResultOf(result_holder)]>>
    /\ UNCHANGED <<invocations, threads_started, caller2, th2, exc_holder2,
                   task_outcome2, cfgVars, bufVars, workerVars, renderVars,
                   liveVars, mainVars>>

\* the work of the first call is not inside a run_task call of its own
WorkNotNested == ~(caller2 = "work" /\ pc2 \in {"live", "join", "deliver"})

\* the work of these calls returns or raises without touching the buffer
NextShared ==
    \/ \E c \in SessionCalls : OpenSession(c)
    \/ run_task_start
    \/ render_enter
    \/ render_lines
    \/ render_status
    \/ render_build
    \/ \E ok \in BOOLEAN : live_begin(ok)
    \/ loop_check
    \/ \E ok \in BOOLEAN : live_update(ok)
    \/ loop_sleep
    \/ \E ok \in BOOLEAN : live_end(ok)
    \/ thread_join
    \/ deliver
    \/ WorkNotNested /\ \E v \in Values : WorkReturns(v)
    \/ WorkNotNested /\ \E e \in TaskErrors : WorkRaises(e)
    \/ ThreadExit
    \/ \E c \in Callers : run_task2_start(c)
    \/ \E v \in Values : Work2Returns(v)
    \/ \E e \in TaskErrors : Work2Raises(e)
    \/ Thread2Exit
    \/ \E ok \in BOOLEAN : run_task2_with(ok)
    \/ run_task2_join
    \/ run_task2_deliver

SpecShared == Init /\ [][NextShared]_vars

(***************************************************************************)
(* Fair scheduling: the calling thread and the background thread each keep *)
(* taking their next step when it stays possible. Whether the work ever    *)
(* finishes or makes another call is up to the work, so the steps that     *)
(* begin an append or a set_status and those that end the work have no     *)
(* fairness; opening a session and calling run_task are up to the caller.  *)
(***************************************************************************)
\* the next step of the thread that called run_task
MainStep ==
    \/ render_enter
    \/ render_lines
    \/ render_status
    \/ render_build
    \/ \E ok \in BOOLEAN : live_begin(ok)
    \/ loop_check
    \/ \E ok \in BOOLEAN : live_update(ok)
    \/ loop_sleep
    \/ \E ok \in BOOLEAN : live_end(ok)
    \/ thread_join
    \/ deliver

\* the steps of the background thread that do not depend on the work:
\* leaving a critical section it has entered, and ending after run()
WorkerStep ==
    \/ append_body
    \/ set_status_body
    \/ ThreadExit

\* termination and the lock do not depend on what the lines say or on the
\* layout: one session call and one line text
FairCalls == {c \in SessionCalls : c.probe = <<40>>}
FairLines == {"a"}

NextFair ==
    \/ \E c \in FairCalls : OpenSession(c)
    \/ run_task_start
    \/ MainStep
    \/ WorkerStep
    \/ \E line \in FairLines : append_enter(line)
    \/ \E text \in Statuses : set_status_enter(text)
    \/ \E v \in Values : WorkReturns(v)
    \/ \E e \in TaskErrors : WorkRaises(e)

SpecFair ==
    Init /\ [][NextFair]_vars /\ WF_vars(MainStep) /\ WF_vars(WorkerStep)

(***************************************************************************)
(* Properties                                                              *)
(***************************************************************************)
\* run_task has given control back to its caller
Ended == pc \in {"returned", "raised"}

TaskReturned(v) == task_outcome = <<[kind |-> "return", value |-> v]>>
TaskRaised(e)   == task_outcome = <<[kind |-> "raise", error |-> e]>>
Returns(v)      == pc = "returned" /\ outcome = <<[kind |-> "return", value |-> v]>>
Raises(e)       == pc = "raised" /\ outcome = <<[kind |-> "raise", error |-> e]>>

\* C1: an error E raised by the work, an Exception or a BaseException
\* alike, is stored in exc_holder by the background thread; when run_task
\* raises an error of the work it is that E, the surface's end has been
\* called exactly once and the surface is stopped; and whenever run_task
\* gets past the with block with the work having raised E, it raises E.
C1_ErrorReraisedAfterEnd ==
    /\ \A e \in TaskErrors :
          /\ TaskRaised(e) => exc_holder = <<e>> /\ result_holder = <<>>
          /\ Raises(e) =>
                /\ TaskRaised(e)
                /\ th = "dead"
                /\ begin_calls = 1
                /\ end_calls = 1
                /\ live = "stopped"
          /\ (TaskRaised(e) /\ pc = "returned") => FALSE
          /\ (TaskRaised(e) /\ pc = "raised") =>
                (Raises(e) \/ Raises(SurfaceError))

\* C1 witness: the work raised the BaseException SystemExit and run_task
\* has raised it, after one end
C1_Witness ==
    /\ Raises("SystemExit")
    /\ TaskRaised("SystemExit")
    /\ end_calls = 1

\* C2: when run_task returns, the work has returned and the value returned
\* is exactly the work's value V (None included), and by then the surface
\* has been begun once and ended exactly once; and once run_task is past
\* the with block with the work having returned V, V is what it delivers.
C2_ValueReturnedAfterEnd ==
    /\ pc = "returned" =>
          /\ \E v \in Values : TaskReturned(v) /\ Returns(v)
          /\ th = "dead"
          /\ begin_calls = 1
          /\ end_calls = 1
          /\ live = "stopped"
    /\ \A v \in Values :
          (TaskReturned(v) /\ pc = "deliver") =>
              exc_holder = <<>> /\ result_holder = <<v>>

\* C2 witness: the work returned a value that is not None and run_task
\* returned it
C2_Witness ==
    /\ TaskReturned(<<"ok">>)
    /\ Returns(<<"ok">>)
    /\ end_calls = 1

\* C3: whenever run_task has given control back to its caller, by a return
\* or by any raise, the background thread has finished.
C3_NeverReturnsWhileWorkRuns ==
    Ended => th = "dead"

\* C4: once the surface has been acquired, end is called exactly once
\* before run_task returns or raises; end is never called twice or without
\* a begin; when run_task has ended no surface is active; and after end
\* run_task only joins the thread and delivers, it renders and pushes nothing.
C4_TeardownUnconditional ==
    /\ end_calls <= begin_calls
    /\ end_calls <= 1
    /\ (live = "none") = (begin_calls = 0 \/ (Ended /\ end_calls = 0))
    /\ (live = "stopped") = (end_calls = 1)
    /\ Ended => live # "started"
    /\ (Ended /\ live # "none") => end_calls = 1
    /\ live = "stopped" => pc \in {"join", "deliver", "returned", "raised"}

\* C4 witness: a surface update raised, and run_task has raised that error
\* after one end
C4_Witness ==
    /\ Raises(SurfaceError)
    /\ begin_calls = 1
    /\ end_calls = 1
    /\ live = "stopped"
    /\ shown # <<>>

\* render holds the lock and has just computed recent from lines_list
Observed == pc = "render_status"

C6_TailFormula ==
    tail # <<>> =>
        LET d     == cfg[1].display_lines
            H     == IF call.probe = <<>> THEN 30 ELSE call.probe[1]
            room  == H - cfg[1].reserve_lines
            atLeastOne == IF room < 1 THEN 1 ELSE room
        IN  /\ tail[1] = (IF d < atLeastOne THEN d ELSE atLeastOne)
            /\ tail[1] <= d
            /\ console_height = <<H>>

\* C6 witness: the probe raised, and the tail is the 18 rows that a height
\* of 30 leaves of the default preset's 24 display lines
C6_Witness ==
    /\ pc = "open"
    /\ call.probe = <<>>
    /\ cfg[1].display_lines = 24
    /\ cfg[1].reserve_lines = 12
    /\ tail = <<18>>

\* the value the precedence gives field f for the call's arguments
Expected(f) ==
    IF f \in DOMAIN call.overrides /\ call.overrides[f] # <<>>
    THEN call.overrides[f][1]
    ELSE IF call.config # <<>>
    THEN call.config[1][f]
    ELSE IF call.preset = <<"streaming">>
    THEN TRANSIENT_PANEL_PRESETS.streaming[f]
    ELSE TRANSIENT_PANEL_PRESETS.default[f]

\* C7: every field of the resolved configuration is the override's value if
\* an override of that name is given and is not None, else the explicit
\* config's value if a config is given, else the named preset's value, else
\* the default preset's (also for an unknown preset name); unrecognised
\* override names and None values add nothing; and preset "streaming" with
\* display_lines=5 gives max_lines=200 and display_lines=5.
C7_ResolvePrecedence ==
    cfg # <<>> =>
        /\ DOMAIN cfg[1] = DOMAIN TransientPanelConfig
        /\ \A f \in DOMAIN TransientPanelConfig : cfg[1][f] = Expected(f)
        /\ ( /\ call.preset = <<"streaming">>
             /\ call.config = <<>>
             /\ "display_lines" \in DOMAIN call.overrides
             /\ call.overrides["display_lines"] = <<5>>
             /\ ("max_lines" \in DOMAIN call.overrides
                    => call.overrides["max_lines"] = <<>>) )
           => cfg[1].max_lines = 200 /\ cfg[1].display_lines = 5

\* C7 witness: preset "streaming" resolved with the one override
\* display_lines=5
C7_Witness ==
    /\ cfg # <<>>
    /\ call.fn = "_resolve_panel_config"
    /\ call.preset = <<"streaming">>
    /\ call.config = <<>>
    /\ DOMAIN call.overrides = {"display_lines"}
    /\ call.overrides["display_lines"] = <<5>>
    /\ cfg[1].max_lines = 200
    /\ cfg[1].display_lines = 5

\* the frame render builds from content, with the status it read
FrameOf(text) == <<Panel(text, status_text[1], cfg[1])>>

\* C8: a render whose content fails to parse as markup still returns a
\* frame, whose body is the content as literal unstyled text; the frame
\* goes on to the surface as any other, and no exception or outcome of
\* run_task comes of it.
C8_MarkupFallback ==
    [][ ( /\ pc = "render_build"
          /\ pc' # "render_build"
          /\ visible # <<>>
          /\ MarkupFails(visible) ) =>
            /\ frame' = FrameOf([plain |-> visible, styled |-> {}])
            /\ pc' = (IF phase = "initial" THEN "begin" ELSE "update")
            /\ pending' = pending
            /\ outcome' = outcome ]_vars

\* C8 witness: in the render loop a frame is about to be pushed whose body
\* is the literal text of content that does not parse
C8_Witness ==
    /\ pc = "update"
    /\ phase = "loop"
    /\ frame # <<>>
    /\ frame[1].body.plain # <<>>
    /\ MarkupFails(frame[1].body.plain)
    /\ frame[1].body.styled = {}

\* C9 as stated: if the work succeeds with V, run_task returns V whatever
\* rendering operation fails.
C9_AllRenderingErrorsAbsorbed ==
    \A v \in Values : (TaskReturned(v) /\ Ended) => Returns(v)

\* C9 amended: markup-parse failures are absorbed, errors of the surface's
\* begin, update and end are not: if the work succeeds with V, run_task
\* returns V unless a begin, update or end call raised, and then it raises
\* that surface error; nothing else turns a successful task into a failed
\* run_task.
C9_OnlySurfaceErrorsPropagate ==
    \A v \in Values :
        (TaskReturned(v) /\ Ended) => (Returns(v) \/ Raises(SurfaceError))

\* C9 witness: the work succeeded, the last frame shown is the literal
\* text of content that did not parse, and run_task returned the value
C9_Witness ==
    /\ Returns(<<"ok">>)
    /\ TaskReturned(<<"ok">>)
    /\ shown # <<>>
    /\ shown[1].body.plain # <<>>
    /\ MarkupFails(shown[1].body.plain)

\* C10: the configuration of every opened session satisfies
\* max_lines >= display_lines >= 0 and refresh_per_second > 0.
C10_ConfigInvariant ==
    pc = "open" =>
        /\ cfg[1].max_lines >= cfg[1].display_lines
        /\ cfg[1].display_lines >= 0
        /\ cfg[1].refresh_per_second > 0

\* C11 as stated: after one run_task invocation has started on the handle,
\* no further invocation starts another background thread or enters Live
\* again.
C11_SingleInvocation ==
    /\ threads_started <= 1
    /\ begin_calls <= 1

\* C11 amended: run_task may be invoked again on the same handle; every
\* invocation starts exactly one background thread, and enters Live once
\* as soon as its initial render is built, so that a second invocation
\* starts a second thread and acquires the surface again.
C11_EveryInvocationStartsAThread ==
    /\ threads_started = invocations
    /\ end_calls <= begin_calls
    /\ begin_calls <= invocations
    /\ (invocations >= 1 /\ pc \in {"check", "update", "sleep", "end", "join",
                                    "deliver", "returned"})
          => begin_calls = invocations

\* C11 witness: a second invocation has started a second thread and has
\* acquired the surface a second time
C11_Witness ==
    /\ invocations = 2
    /\ threads_started = 2
    /\ begin_calls = 2
    /\ th = "alive"
    /\ live = "started"

\* the last n entries of s, as the specification means them: none when n
\* is 0, all of s when n exceeds its length
LastEntries(s, n) == SubSeq(s, Max(Len(s) - n, 0) + 1, Len(s))

\* C12: for every configuration with max_lines >= display_lines >= 0,
\* including max_lines = 0 and a tail of 0, the body render computes is the
\* last tail entries of the last min(max_lines, len) entries of the buffer,
\* so it never has more than tail lines.
C12_BodyIsTailOfRetained ==
    (/\ Observed
     /\ cfg[1].max_lines >= cfg[1].display_lines
     /\ cfg[1].display_lines >= 0) =>
        /\ visible = LastEntries(LastEntries(lines_list,
                                             Min(cfg[1].max_lines,
                                                 Len(lines_list))),
                                 tail[1])
        /\ Len(visible) <= tail[1]

\* C13: under every interleaving of append and set_status with render, the
\* (visible lines, status) pair of a frame is taken from one state of the
\* buffer: at the instant render reads the status, the lines it has
\* computed are the window of the lines appended so far and the status it
\* reads is the current one, which is default_status until a set_status
\* has been made; the frame is built from that pair.
C13_ConsistentSnapshot ==
    /\ [](pc \in {"render_lines", "render_status"} => lock = "main")
    /\ []((pc # "closed" /\ nstatus = 0) =>
              current_status = cfg[1].default_status)
    /\ [][/\ (pc = "render_status" /\ pc' = "render_build") =>
                 /\ visible = Visible(Recent(lines_list, cfg[1].max_lines),
                                      tail[1])
                 /\ status_text' = <<current_status>>
          /\ (pc = "render_build" /\ pc' \in {"begin", "update"}) =>
                 frame' = <<Panel(Streamed(visible).text, status_text[1],
                                  cfg[1])>>]_vars

\* C13 witness: while the work is still running, render has taken a
\* snapshot with a line and a status the work has set
C13_Witness ==
    /\ pc = "render_build"
    /\ th = "alive"
    /\ wpc = "work"
    /\ visible # <<>>
    /\ status_text = <<"Downloading">>
    /\ Len(lines_list) >= 2

\* C14: the background thread is started only after the rendering surface
\* has been acquired, so when run_task fails before the surface was
\* acquired (building the initial frame or acquiring the surface failed)
\* no background thread has been started.
C14_ThreadStartedAfterSurface ==
    /\ th # "none" => live # "none"
    /\ (pc = "raised" /\ live = "none") => th = "none"

\* C15: after the loop has observed that the thread is no longer alive,
\* exactly one more render is made and pushed with live.update, and then
\* the surface is ended: the final phase is entered only from the loop's
\* check with the thread dead, it goes once through render to one update
\* and from that update to end, it never goes back to a render, a check or
\* a sleep, and the with block is left without an exception only from that
\* final update, whose frame is the one shown.
C15_ExactlyOneFinalRender ==
    [][/\ (phase' = "final" /\ phase # "final") =>
              (pc = "check" /\ th = "dead" /\ pc' = "render")
       /\ phase = "final" =>
              /\ phase' = "final"
              /\ pc' # pc => ~(pc' \in {"render", "check", "sleep", "begin"})
              /\ (pc' = "update" /\ pc # "update") => pc = "render_build"
              /\ (pc = "update" /\ pc' # pc) => pc' = "end"
              /\ shown' # shown => pc = "update"
       /\ (pc' = "end" /\ pc # "end" /\ pending' = <<>>) =>
              (pc = "update" /\ phase = "final" /\ shown' = frame)
       /\ (pc = "end" /\ pc' # pc) => end_calls' = end_calls + 1]_vars

\* C15 witness: the final frame has been pushed after the thread ended,
\* and end is the next call
C15_Witness ==
    /\ pc = "end"
    /\ phase = "final"
    /\ pending = <<>>
    /\ th = "dead"
    /\ end_calls = 0
    /\ shown = frame
    /\ lines_list # <<>>

\* the frame render builds from the buffer as it is now
FrameOfBuffer ==
    Panel(Streamed(Visible(Recent(lines_list, cfg[1].max_lines),
                           tail[1])).text,
          current_status, cfg[1])

\* C16: however the work's appends and set_status calls interleaved with
\* the render loop, once the final frame has been pushed and no surface
\* call has raised, the frame the surface shows is the one computed from
\* the complete final buffer: every line the work appended and the last
\* status it set (default_status if none), and the work has finished.
C16_LastFrameReflectsFinalBuffer ==
    (/\ phase = "final"
     /\ pending = <<>>
     /\ pc \in {"end", "join", "deliver", "returned"}) =>
        /\ th = "dead"
        /\ shown = <<FrameOfBuffer>>

\* C16 witness: the work appended as many lines as it may and set a status,
\* and the last frame shown before end is the one of the final buffer
C16_Witness ==
    /\ pc = "end"
    /\ phase = "final"
    /\ pending = <<>>
    /\ Len(lines_list) = MaxAppends
    /\ current_status = "Downloading"
    /\ shown = <<FrameOfBuffer>>

\* C17: the loop makes an in-loop iteration (render, update, sleep) only
\* from a check that found the thread alive, every iteration ends in the
\* next check, and the first check that finds the thread dead leaves the
\* loop; a dead thread stays dead, so after the thread has finished only
\* the iteration already under way completes before the loop exits.
C17_LoopExitsAtFirstDeadCheck ==
    [][/\ (pc = "check" /\ pc' # pc) =>
              /\ pc' = "render"
              /\ (phase' = "loop") = (th = "alive")
              /\ (phase' = "final") = (th = "dead")
       /\ (pc = "update" /\ phase = "loop" /\ pc' # pc /\ pending' = <<>>) =>
              (pc' = "sleep" /\ shown' = frame)
       /\ (pc = "sleep" /\ pc' # pc) => pc' = "check"
       /\ (pc' = "sleep" /\ pc # pc') => (pc = "update" /\ phase = "loop")
       /\ (th = "dead" /\ phase = "loop" /\ pc' = "check" /\ pc # pc') =>
              (pc = "sleep" /\ th' = "dead")
       /\ th = "dead" => th' = "dead"]_vars

\* C17 witness: the thread finished during an in-loop iteration, which is
\* completing its sleep; the check that follows finds it dead
C17_Witness ==
    /\ pc = "sleep"
    /\ phase = "loop"
    /\ th = "dead"
    /\ shown = frame
    /\ lines_list # <<>>

\* C18: the calling thread holds the lock exactly while render copies the
\* lines and the status; it does not hold it while parsing markup and
\* building the panel, during a surface call, a sleep or a liveness check,
\* so a worker that is about to append or set the status then finds the
\* lock free.
C18_LockHeldOnlyWhileCopying ==
    /\ (lock = "main") = (pc \in {"render_lines", "render_status"})
    /\ (lock = "worker") = (wpc \in {"append", "set_status"})
    /\ (/\ pc \in {"render_build", "begin", "update", "sleep", "check", "end"}
        /\ wpc = "work") => lock = "free"

\* C18 witness: the worker holds the lock, inside append, while the calling
\* thread is in a surface update
C18_Witness ==
    /\ pc = "update"
    /\ phase = "loop"
    /\ lock = "worker"
    /\ wpc = "append"

\* the outcome the background thread has recorded in the two holders
Recorded ==
    IF exc_holder # <<>>
    THEN <<[kind |-> "raise", error |-> exc_holder[1]]>>
    ELSE IF result_holder # <<>>
    THEN <<[kind |-> "return", value |-> result_holder[1]]>>
    ELSE <<>>

\* C19: for one run_task invocation, once the background thread has
\* finished exactly one of "a result is recorded" and "a failure is
\* recorded" holds, and it is the work's outcome; the holders do not change
\* afterwards, so every read gives the same outcome; run_task hands an
\* outcome to its caller at most once, and what it hands over when it
\* reaches its raise/return statements is the recorded outcome (a surface
\* error that left the with block is raised in its place).
C19_ExactlyOneOutcome ==
    /\ [](th = "dead" =>
             /\ (result_holder # <<>>) # (exc_holder # <<>>)
             /\ Len(result_holder) <= 1
             /\ Recorded = task_outcome)
    /\ [](Ended => (outcome = Recorded \/ Raises(SurfaceError)))
    /\ [](pc = "returned" => outcome = Recorded)
    /\ [][/\ th = "dead" =>
                 /\ result_holder' = result_holder
                 /\ exc_holder' = exc_holder
          /\ (pc = "deliver" /\ pc' # pc) => (Ended' /\ outcome' = Recorded)
          /\ outcome' # outcome => (outcome = <<>> /\ Ended')
          /\ Ended => (pc' = pc /\ outcome' = outcome)]_vars

\* C19 witness: the work raised ValueError, only the failure is recorded,
\* and run_task has handed it to its caller
C19_Witness ==
    /\ th = "dead"
    /\ exc_holder = <<"ValueError">>
    /\ result_holder = <<>>
    /\ Raises("ValueError")

\* the calling thread takes a step of render
RenderStep ==
    /\ pc \in {"render", "render_lines", "render_status", "render_build"}
    /\ pc' # pc

\* C20: no step of render changes the line sequence, the status string,
\* the resolved configuration or the tail length; append changes only the
\* line sequence, by adding exactly the given line at its end; set_status
\* changes only the status string, to the given text.
C20_RenderReadsAppendAndStatusWriteOneField ==
    [][/\ RenderStep =>
              /\ lines_list' = lines_list
              /\ current_status' = current_status
              /\ cfg' = cfg
              /\ tail' = tail
       /\ (wpc = "append" /\ wpc' # wpc) =>
              /\ lines_list' = Append(lines_list, warg[1])
              /\ UNCHANGED <<current_status, cfgVars, result_holder,
                             exc_holder>>
       /\ (wpc = "set_status" /\ wpc' # wpc) =>
              /\ current_status' = warg[1]
              /\ UNCHANGED <<lines_list, cfgVars, result_holder,
                             exc_holder>>
       /\ lines_list' # lines_list => wpc = "append"
       /\ current_status' # current_status =>
              (wpc = "set_status" \/ pc = "closed")
       /\ (cfg' # cfg \/ tail' # tail) => pc = "closed"]_vars

\* C20 witness: render has gone through its copy with a buffer of two
\* lines and a status the work set, and the buffer is as it was
C20_Witness ==
    /\ pc = "render_build"
    /\ phase = "loop"
    /\ Len(lines_list) = 2
    /\ Len(visible) = 1
    /\ cfg[1].max_lines = 2
    /\ current_status = "Downloading"
    /\ status_text = <<"Downloading">>

\* the work has finished, by a return or by a raise
WorkFinished == task_outcome # <<>>

\* C21: under fair scheduling, once the work has finished run_task leaves
\* the loop and returns or raises to its caller, with the surface ended
\* unless acquiring it failed; a thread waiting for the lock gets it, a
\* thread holding it releases it; and the lock is free whenever no append,
\* set_status or render copy is in progress.
C21_RunTaskTerminates ==
    /\ WorkFinished ~> (Ended /\ (live = "stopped" \/ Raises(SurfaceError)))
    /\ WorkFinished ~> (Ended \/ phase = "final")
    /\ (pc = "render") ~> (pc # "render")
    /\ (lock # "free") ~> (lock = "free")
    /\ []((/\ ~(wpc \in {"append", "set_status"})
           /\ ~(pc \in {"render_lines", "render_status"})) => lock = "free")

\* C21 witness: the work appended and set the status while the loop was
\* running, finished, and run_task has returned with the surface ended
\* and the lock free
C21_Witness ==
    /\ pc = "returned"
    /\ WorkFinished
    /\ Len(lines_list) = MaxAppends
    /\ nstatus = MaxStatus
    /\ lock = "free"
    /\ live = "stopped"

\* C22: every run_task invocation that returns, returns the value its own
\* work produced, and an invocation whose work returned a value does not
\* fail for want of a result, also when two invocations on one handle
\* overlap (one made by the work of the other, or by another thread) or
\* follow each other.
C22_ReturnsOwnValue ==
    /\ pc = "returned" => \E v \in Values : TaskReturned(v) /\ Returns(v)
    /\ pc2 = "returned" => outcome2 = task_outcome2
    /\ ~Raises("IndexError")
    /\ ~(pc2 = "raised" /\ outcome2 = <<[kind |-> "raise",
                                         error |-> "IndexError"]>>)

====
